---- MODULE Spec2Model ----
(***************************************************************************)
(* The ADS1115 analog-to-digital converter driver of                       *)
(* src/resources/PRIM_v3_01-Arduino Box/ads.cpp as a state machine: the    *)
(* driver object's fields, the position of the single caller thread inside *)
(* measure(), the I2C bus traffic of the call in progress, and the         *)
(* converter at the other end of the bus; and the camera manager of        *)
(* src/liveplotter/cpp_camera/CameraManager.cpp: its Impl fields and the   *)
(* streams it has started.                                                 *)
(***************************************************************************)
EXTENDS Integers, Sequences, FiniteSets, TLC

(***************************************************************************)
(* Bounds of the model.                                                    *)
(***************************************************************************)
\* not-ready polls of the Config register followed inside one call
MaxPolls == 2
\* failed bus transactions injected in one run
MaxFaults == 1
\* measure() is called with every source in -1..MaxSource
MaxSource == 2
\* resolution shifts the decoder is exercised with: 0..MaxShift
MaxShift == 5

(***************************************************************************)
(* Protocol constants of ads.h; the values follow the register map and the *)
(* Config word layout of the specification, section 6.                     *)
(***************************************************************************)
ADS1X15_REG_POINTER_CONVERT == 0
ADS1X15_REG_POINTER_CONFIG == 1
ADS1X15_REG_POINTER_LOWTHRESH == 2
ADS1X15_REG_POINTER_HITHRESH == 3

\* bit 15: operational status / start single conversion         (0x8000)
ADS1X15_REG_CONFIG_OS_SINGLE == 32768
\* bits 14-12: multiplexer                              (0x0000, 0x3000)
ADS1X15_REG_CONFIG_MUX_DIFF_0_1 == 0
ADS1X15_REG_CONFIG_MUX_DIFF_2_3 == 12288
\* bits 11-9: gain                                      (0x0000, 0x0A00)
GAIN_TWOTHIRDS == 0
GAIN_SIXTEEN == 2560
\* bit 8: operating mode                                (0x0000, 0x0100)
ADS1X15_REG_CONFIG_MODE_CONTIN == 0
ADS1X15_REG_CONFIG_MODE_SINGLE == 256
\* bits 7-5: data rate                                  (0x0080, 0x00E0)
RATE_ADS1115_128SPS == 128
RATE_ADS1115_860SPS == 224
\* bit 4, bit 3, bit 2, bits 1-0: comparator mode, polarity, latch, queue
ADS1X15_REG_CONFIG_CMODE_TRAD == 0
ADS1X15_REG_CONFIG_CPOL_ACTVLOW == 0
ADS1X15_REG_CONFIG_CLAT_NONLAT == 0
ADS1X15_REG_CONFIG_CQUE_1CONV == 0
ADS1X15_REG_CONFIG_CQUE_NONE == 3

\* every multiplexer code, gain and data rate of the three-bit fields
MuxCodes == {m * 4096 : m \in 0..7}
adsGain_t == {g * 512 : g \in 0..5}
DataRates == {r * 32 : r \in 0..7}

(***************************************************************************)
(* 16-bit arithmetic of the driver.                                        *)
(***************************************************************************)
RECURSIVE BitOr(_, _)
BitOr(a, b) ==
    IF a = 0 THEN b
    ELSE IF b = 0 THEN a
    ELSE (IF a % 2 = 1 \/ b % 2 = 1 THEN 1 ELSE 0) + 2 * BitOr(a \div 2, b \div 2)

RECURSIVE BitAnd(_, _)
BitAnd(a, b) ==
    IF a = 0 \/ b = 0 THEN 0
    ELSE (IF a % 2 = 1 /\ b % 2 = 1 THEN 1 ELSE 0) + 2 * BitAnd(a \div 2, b \div 2)

\* x >> n on an unsigned value
ShiftRight(x, n) == x \div (2 ^ n)

\* (uint16_t) x
U16(x) == x % 65536

\* (uint8_t) x
U8(x) == x % 256

\* (int16_t) of a uint16_t
ToInt16(x) == IF x >= 32768 THEN x - 65536 ELSE x

(***************************************************************************)
(* Inputs the operations are exercised with.                               *)
(***************************************************************************)
Sources == -1..MaxSource

\* 0x0064, 0x0F80, 0xFF9C
ConvValues == {100, 3968, 65436}

Calibrations ==
    { [inputMin |-> 0, inputMax |-> 1000, outputMin |-> 0, outputMax |-> 10],
      [inputMin |-> 5, inputMax |-> 5, outputMin |-> 0, outputMax |-> 10],
      [inputMin |-> 100, inputMax |-> 0, outputMin |-> 1, outputMax |-> 3] }

\* the calibration fields and readADC are not set by the constructor: a
\* zero-filled static object, or whatever the storage held
UninitCalibrations ==
    { [inputMin |-> 0, inputMax |-> 0, outputMin |-> 0, outputMax |-> 0],
      [inputMin |-> 0, inputMax |-> 1000, outputMin |-> 0, outputMax |-> 10] }
UninitRaw == {0, -3}

\* Conversion register values around every nibble boundary
Nibbles == {0, 1, 7, 8, 15}
DecodeValues ==
    {a * 4096 + b * 256 + c * 16 + d : a \in Nibbles, b \in Nibbles,
                                       c \in Nibbles, d \in Nibbles}

GainInputs == {GAIN_TWOTHIRDS, GAIN_SIXTEEN}
RateInputs == {RATE_ADS1115_128SPS, RATE_ADS1115_860SPS}

\* calibration constants and raw counts for the calibration map on its own
CalInputs == {-2, 0, 3, 1000}
CalOutputs == {-1, 0, 10}
CalSpace ==
    [inputMin : CalInputs, inputMax : CalInputs,
     outputMin : CalOutputs, outputMax : CalOutputs]
RawCounts == CalInputs \cup {-32768, 100, 32767}

\* register addresses and values for the byte framing on its own
FrameRegisters == 0..3
FrameValues == 0..65535

\* cameras, model hints and caller's variables for the camera manager
MaxOrphans == 2
Mono == [width |-> 4, height |-> 3, channels |-> 1]
Colour == [width |-> 2, height |-> 2, channels |-> 3]
DMK == <<"D", "M", "K">>
DFK == <<"D", "F", "K">>
AttachedLists ==
    {<<>>,
     <<[modelName |-> DMK, formats |-> <<Mono, Colour>>]>>,
     <<[modelName |-> DMK, formats |-> <<>>],
       [modelName |-> DFK, formats |-> <<Colour>>]>>,
     <<[modelName |-> DFK, formats |-> <<Colour>>],
       [modelName |-> DMK, formats |-> <<Mono>>]>>}
ModelHints == {<<>>, <<"M", "K">>, <<"D", "F", "K">>, <<"X">>}
DimInputs == {[width |-> 0, height |-> 0, channels |-> 0],
              [width |-> 7, height |-> 7, channels |-> 7]}

VARIABLES
    m_bitShift,     \* resolution shift of the device variant
    m_gain,         \* PGA field of the Config word
    m_dataRate,     \* DR field of the Config word
    source,         \* _source
    readADC,        \* raw count of the last conversion read
    converted,      \* result of the last calibration map
    cal,            \* _inputMin, _inputMax, _outputMin, _outputMax
    buffer,         \* the three-byte transfer buffer
    pc,             \* position of the caller inside the driver
    call,           \* the operation in progress, or the last one made
    frame,          \* startADCReading's arguments while it runs
    polls,          \* Config reads of this call that showed "not ready"
    bus,            \* register transactions issued by this call, in order
    dev_mux,        \* the converter's multiplexer field (Config bits 14-12)
    dev_conv,       \* the converter's Conversion register
    dev_busy,       \* the converter is performing a conversion
    faults,         \* bus transactions that have failed so far
    dev_lo,         \* the converter's Low-threshold register
    dev_hi,         \* the converter's High-threshold register
    begun,          \* m_i2c_dev: "no" before begin, then begin's result
    serialized,     \* the callers hold a lock around each measurement
    b_pc,           \* position of a second driver instance on the same bus
    b_readADC,      \* raw count the second instance read last
    attached,       \* the cameras the system enumerates
    impl_device,    \* Impl::device: index of the opened camera, 0 for none
    sink,           \* Impl::sink is non-null
    stream,         \* Impl::stream: "none", "running" or "stopped"
    orphans,        \* started streams overwritten without a stop
    stops,          \* calls of stop on the stream Impl::stream holds
    current_format, \* Impl::current_format
    initialized,    \* Impl::initialized
    cam_call,       \* the camera operation made last, with its result
    dims,           \* the caller's width, height and channels
    live            \* an initialize has succeeded and no shutdown followed

vars == <<m_bitShift, m_gain, m_dataRate, source, readADC, converted, cal,
          buffer, pc, call, frame, polls, bus, dev_mux, dev_conv, dev_busy,
          dev_lo, dev_hi,
          faults, begun, serialized, b_pc, b_readADC, attached, impl_device,
          sink, stream, orphans, stops, current_format, initialized, cam_call,
          dims, live>>

other == <<serialized, b_pc, b_readADC>>

camera == <<attached, impl_device, sink, stream, orphans, stops, current_format,
            initialized, cam_call, dims, live>>

device == <<dev_mux, dev_conv, dev_busy, dev_lo, dev_hi>>

NoFrame == [mux |-> 0, continuous |-> FALSE]
Uninit == [kind |-> "uninit"]

(***************************************************************************)
(* Pure functions of the driver.                                           *)
(***************************************************************************)
\* the Config word with the data rate given as its field number, not shifted
\* into bits 7-5
ConfigWord_rateUnshifted(gain, rate, mux, continuous) ==
    LET c1 == IF continuous THEN ADS1X15_REG_CONFIG_MODE_CONTIN
                            ELSE ADS1X15_REG_CONFIG_MODE_SINGLE
        c2 == BitOr(c1, gain)
        c3 == BitOr(c2, ShiftRight(rate, 5))
        c4 == BitOr(c3, mux)
    IN  BitOr(c4, ADS1X15_REG_CONFIG_OS_SINGLE)

\* the Config word with the comparator queue field set to "disabled"
ConfigWord_queueDisabled(gain, rate, mux, continuous) ==
    LET c0 == BitOr(BitOr(BitOr(ADS1X15_REG_CONFIG_CQUE_NONE,
                                ADS1X15_REG_CONFIG_CLAT_NONLAT),
                          ADS1X15_REG_CONFIG_CPOL_ACTVLOW),
                    ADS1X15_REG_CONFIG_CMODE_TRAD)
        c1 == IF continuous THEN BitOr(c0, ADS1X15_REG_CONFIG_MODE_CONTIN)
                            ELSE BitOr(c0, ADS1X15_REG_CONFIG_MODE_SINGLE)
        c2 == BitOr(c1, gain)
        c3 == BitOr(c2, rate)
        c4 == BitOr(c3, mux)
    IN  BitOr(c4, ADS1X15_REG_CONFIG_OS_SINGLE)

\* startADCReading, lines 42-57: the Config word
ConfigWord(gain, rate, mux, continuous) ==
    LET c0 == BitOr(BitOr(BitOr(ADS1X15_REG_CONFIG_CQUE_1CONV,
                                ADS1X15_REG_CONFIG_CLAT_NONLAT),
                          ADS1X15_REG_CONFIG_CPOL_ACTVLOW),
                    ADS1X15_REG_CONFIG_CMODE_TRAD)
        c1 == IF continuous THEN BitOr(c0, ADS1X15_REG_CONFIG_MODE_CONTIN)
                            ELSE BitOr(c0, ADS1X15_REG_CONFIG_MODE_SINGLE)
        c2 == BitOr(c1, gain)
        c3 == BitOr(c2, rate)
        c4 == BitOr(c3, mux)
    IN  BitOr(c4, ADS1X15_REG_CONFIG_OS_SINGLE)

\* the decoder without the shift of line 76: the register value is taken as
\* already right-justified
DecodeResult_noShift(word, shift) ==
    LET res == U16(word)
    IN  IF shift = 0 THEN ToInt16(res)
        ELSE IF res > 2047 THEN ToInt16(BitOr(res, 61440))
        ELSE ToInt16(res)

\* the decoder with the sign test of line 80 off by one (res >= 0x07FF)
DecodeResult_offByOne(word, shift) ==
    LET res == U16(ShiftRight(word, shift))
    IN  IF shift = 0 THEN ToInt16(res)
        ELSE IF res >= 2047 THEN ToInt16(BitOr(res, 61440))
        ELSE ToInt16(res)

\* getLastConversionResults, lines 76-84, applied to the word read
DecodeResult(word, shift) ==
    LET res == U16(ShiftRight(word, shift))
    IN  IF shift = 0 THEN ToInt16(res)
        ELSE IF res > 2047 THEN ToInt16(BitOr(res, 61440))
        ELSE ToInt16(res)

Abs(x) == IF x < 0 THEN -x ELSE x

RECURSIVE GCD(_, _)
GCD(a, b) == IF b = 0 THEN a ELSE GCD(b, a % b)

\* the rational n/d in lowest terms, d > 0
Rational(n, d) ==
    LET g == GCD(Abs(n), Abs(d))
        s == IF d < 0 THEN -1 ELSE 1
    IN  [kind |-> "value", num |-> (s * n) \div g, den |-> (s * d) \div g]

\* the map with the raw count limited to the calibration's input range first
LinearMap_clamped(raw, c) ==
    LET lo == IF c.inputMin < c.inputMax THEN c.inputMin ELSE c.inputMax
        hi == IF c.inputMin < c.inputMax THEN c.inputMax ELSE c.inputMin
        r == IF raw < lo THEN lo ELSE IF raw > hi THEN hi ELSE raw
    IN  IF c.inputMax - c.inputMin = 0
        THEN [kind |-> "nonfinite"]
        ELSE Rational((c.outputMax - c.outputMin) * (r - c.inputMin)
                          + c.outputMin * (c.inputMax - c.inputMin),
                      c.inputMax - c.inputMin)

\* measure, line 13: (oMax - oMin) / (iMax - iMin) * (raw - iMin) + oMin in
\* exact arithmetic; a zero divisor gives an infinity or a NaN
LinearMap(raw, c) ==
    IF c.inputMax - c.inputMin = 0
    THEN [kind |-> "nonfinite"]
    ELSE Rational((c.outputMax - c.outputMin) * (raw - c.inputMin)
                      + c.outputMin * (c.inputMax - c.inputMin),
                  c.inputMax - c.inputMin)

\* the bytes of a register write with the low byte sent first
WriteBytes_lowByteFirst(reg, value) ==
    <<U8(reg), BitAnd(value, 255), U8(ShiftRight(value, 8))>>

\* writeRegister, lines 92-94: the bytes put on the bus
WriteBytes(reg, value) == <<U8(reg), U8(ShiftRight(value, 8)), BitAnd(value, 255)>>

\* readRegister, line 102: the word assembled from the buffer
BufferWord(buf) == BitOr(buf[1] * 256, buf[2])

(***************************************************************************)
(* The converter and the bus.                                              *)
(***************************************************************************)
\* what a register holds when it is read: the Config register shows the
\* conversion-ready status in bit 15 and the multiplexer field it was given
DevRead(reg) ==
    IF reg = ADS1X15_REG_POINTER_CONVERT THEN dev_conv
    ELSE IF reg = ADS1X15_REG_POINTER_CONFIG
         THEN dev_mux + (IF dev_busy THEN 0 ELSE 32768)
    ELSE IF reg = ADS1X15_REG_POINTER_LOWTHRESH THEN dev_lo
    ELSE dev_hi

\* a transaction succeeds, or fails while the fault budget lasts; it fails
\* when begin found no converter at the address, and does either through the
\* pointer begin has not set yet
Outcomes ==
    IF begun = "failed" THEN {FALSE}
    ELSE IF begun = "no" THEN {TRUE, FALSE}
    ELSE IF faults < MaxFaults THEN {TRUE, FALSE} ELSE {TRUE}

\* the converter finishes the conversion it was asked for
DeviceFinish ==
    /\ dev_busy
    /\ dev_busy' = FALSE
    /\ dev_conv' \in ConvValues
    /\ UNCHANGED <<begun, other, camera, m_bitShift, m_gain, m_dataRate, source,
                   readADC, converted, cal, buffer, pc, call, frame, polls, bus,
                   dev_mux, dev_lo, dev_hi, faults>>

\* writeRegister, lines 91-96: the result of m_i2c_dev->write is not looked at
writeRegister(reg, value, ok) ==
    /\ buffer' = WriteBytes(reg, value)
    /\ bus' = Append(bus, [op |-> "W", reg |-> reg, val |-> value,
                           bytes |-> buffer', ok |-> ok])
    /\ faults' = IF ok \/ begun # "ok" THEN faults ELSE faults + 1
    /\ LET written == buffer'[2] * 256 + buffer'[3]
       IN  IF ~ok THEN UNCHANGED device
           ELSE IF reg = ADS1X15_REG_POINTER_CONFIG
           THEN /\ dev_mux' = BitAnd(written, 28672)
                /\ dev_busy' = (written >= 32768 \/ dev_busy)
                /\ UNCHANGED <<dev_conv, dev_lo, dev_hi>>
           ELSE IF reg = ADS1X15_REG_POINTER_LOWTHRESH
           THEN dev_lo' = written /\ UNCHANGED <<dev_mux, dev_conv, dev_busy, dev_hi>>
           ELSE IF reg = ADS1X15_REG_POINTER_HITHRESH
           THEN dev_hi' = written /\ UNCHANGED <<dev_mux, dev_conv, dev_busy, dev_lo>>
           ELSE UNCHANGED device

\* readRegister, lines 98-103: a failed transfer leaves the buffer as the
\* driver filled it, and the results of write and read are not looked at
ReadBuffer(reg, ok) ==
    IF ok THEN <<U8(ShiftRight(DevRead(reg), 8)), U8(DevRead(reg)), buffer[3]>>
    ELSE <<U8(reg), buffer[2], buffer[3]>>

readRegister(reg, ok) ==
    /\ buffer' = ReadBuffer(reg, ok)
    /\ bus' = Append(bus, [op |-> "R", reg |-> reg, val |-> BufferWord(buffer'),
                           bytes |-> <<U8(reg)>>, ok |-> ok])
    /\ faults' = IF ok \/ begun # "ok" THEN faults ELSE faults + 1
    /\ UNCHANGED device

(***************************************************************************)
(* The driver's operations.                                                *)
(***************************************************************************)
\* readADC_Differential_0_1, line 64, and readADC_Differential_2_3, line 70:
\* the call of startADCReading
readADC_Differential_0_1 ==
    /\ frame' = [mux |-> ADS1X15_REG_CONFIG_MUX_DIFF_0_1, continuous |-> FALSE]
    /\ pc' = "wcfg"

\* readADC_Differential_2_3 starting a conversion of the pair (0, 1)
readADC_Differential_2_3_pair01 ==
    /\ frame' = [mux |-> ADS1X15_REG_CONFIG_MUX_DIFF_0_1, continuous |-> FALSE]
    /\ pc' = "wcfg"

readADC_Differential_2_3 ==
    /\ frame' = [mux |-> ADS1X15_REG_CONFIG_MUX_DIFF_2_3, continuous |-> FALSE]
    /\ pc' = "wcfg"

\* measure with the channel remembered: a source equal to the last one is taken
\* as still configured, and the three writes are skipped
measure_cached(s) ==
    /\ pc = "idle"
    /\ source' = s
    /\ call' = [op |-> "measure", source |-> s]
    /\ bus' = <<>>
    /\ polls' = 0
    /\ IF s \in {0, 1} /\ s = source THEN pc' = "poll" /\ UNCHANGED frame
       ELSE IF s = 0 THEN readADC_Differential_0_1
       ELSE IF s = 1 THEN readADC_Differential_2_3
       ELSE pc' = "calc" /\ UNCHANGED frame
    /\ UNCHANGED <<begun, other, camera, m_bitShift, m_gain, m_dataRate,
                   readADC, converted, cal, buffer, dev_mux, dev_conv, dev_busy,
                   dev_lo, dev_hi, faults>>

\* measure with the second test of line 9 dropped: every source other than 0
\* is measured on the pair (2, 3)
measure_elseChannel(s) ==
    /\ pc = "idle"
    /\ source' = s
    /\ call' = [op |-> "measure", source |-> s]
    /\ bus' = <<>>
    /\ polls' = 0
    /\ IF s = 0 THEN readADC_Differential_0_1
       ELSE readADC_Differential_2_3
    /\ UNCHANGED <<begun, other, camera, m_bitShift, m_gain, m_dataRate,
                   readADC, converted, cal, buffer, dev_mux, dev_conv, dev_busy,
                   dev_lo, dev_hi, faults>>

\* measure, lines 6-12: the caller enters with a source
measure(s) ==
    /\ pc = "idle"
    /\ source' = s
    /\ call' = [op |-> "measure", source |-> s]
    /\ bus' = <<>>
    /\ polls' = 0
    /\ IF s = 0 THEN readADC_Differential_0_1
       ELSE IF s = 1 THEN readADC_Differential_2_3
       ELSE pc' = "calc" /\ UNCHANGED frame
    /\ UNCHANGED <<begun, other, camera, m_bitShift, m_gain, m_dataRate,
                   readADC, converted, cal, buffer, dev_mux, dev_conv, dev_busy,
                   dev_lo, dev_hi, faults>>

\* startADCReading with the gain assignment of line 54 turned round
\* (m_gain |= config)
startADCReading_config_gainClobbered(ok) ==
    /\ pc = "wcfg"
    /\ writeRegister(ADS1X15_REG_POINTER_CONFIG,
                     ConfigWord(m_gain, m_dataRate, frame.mux, frame.continuous), ok)
    /\ m_gain' = BitOr(m_gain, BitOr(ADS1X15_REG_CONFIG_MODE_SINGLE, m_dataRate))
    /\ pc' = "whi"
    /\ UNCHANGED <<begun, other, camera, m_bitShift, m_dataRate, source,
                   readADC, converted, cal, call, frame, polls>>

\* startADCReading, line 41: called with a multiplexer code and a mode
startADCReading(mux, continuous) ==
    /\ pc = "idle"
    /\ call' = [op |-> "startADCReading", mux |-> mux, continuous |-> continuous]
    /\ frame' = [mux |-> mux, continuous |-> continuous]
    /\ pc' = "wcfg"
    /\ bus' = <<>>
    /\ polls' = 0
    /\ UNCHANGED <<begun, other, camera, m_bitShift, m_gain, m_dataRate, source,
                   readADC, converted, cal, buffer, dev_mux, dev_conv, dev_busy,
                   dev_lo, dev_hi, faults>>

\* startADCReading, line 58
startADCReading_config(ok) ==
    /\ pc = "wcfg"
    /\ writeRegister(ADS1X15_REG_POINTER_CONFIG,
                     ConfigWord(m_gain, m_dataRate, frame.mux, frame.continuous), ok)
    /\ pc' = "whi"
    /\ UNCHANGED <<begun, other, camera, m_bitShift, m_gain, m_dataRate, source,
                   readADC, converted, cal, call, frame, polls>>

\* startADCReading, line 59
startADCReading_hithresh(ok) ==
    /\ pc = "whi"
    /\ writeRegister(ADS1X15_REG_POINTER_HITHRESH, 32768, ok)
    /\ pc' = "wlo"
    /\ UNCHANGED <<begun, other, camera, m_bitShift, m_gain, m_dataRate, source,
                   readADC, converted, cal, call, frame, polls>>

\* startADCReading, lines 60-61
startADCReading_lowthresh(ok) ==
    /\ pc = "wlo"
    /\ writeRegister(ADS1X15_REG_POINTER_LOWTHRESH, 0, ok)
    /\ pc' = IF call.op = "startADCReading" THEN "idle" ELSE "poll"
    /\ frame' = NoFrame
    /\ UNCHANGED <<begun, other, camera, m_bitShift, m_gain, m_dataRate, source,
                   readADC, converted, cal, call, polls>>

\* conversionComplete without the mask of line 88: any non-zero word counts
\* as ready
conversionComplete_noMask(ok) ==
    /\ pc = "poll"
    /\ readRegister(ADS1X15_REG_POINTER_CONFIG, ok)
    /\ IF BufferWord(buffer') # 0
       THEN pc' = "conv" /\ UNCHANGED polls
       ELSE polls < MaxPolls /\ polls' = polls + 1 /\ pc' = "poll"
    /\ UNCHANGED <<begun, other, camera, m_bitShift, m_gain, m_dataRate, source,
                   readADC, converted, cal, call, frame>>

\* conversionComplete that reads the Config register and reports "ready"
\* whatever the word says
conversionComplete_noWait(ok) ==
    /\ pc = "poll"
    /\ readRegister(ADS1X15_REG_POINTER_CONFIG, ok)
    /\ pc' = "conv"
    /\ UNCHANGED <<begun, other, camera, m_bitShift, m_gain, m_dataRate, source,
                   readADC, converted, cal, call, frame, polls>>

\* conversionComplete, lines 87-89, inside the loop of lines 65 and 71
conversionComplete(ok) ==
    /\ pc = "poll"
    /\ readRegister(ADS1X15_REG_POINTER_CONFIG, ok)
    /\ IF BitAnd(BufferWord(buffer'), 32768) # 0
       THEN pc' = "conv" /\ UNCHANGED polls
       ELSE polls < MaxPolls /\ polls' = polls + 1 /\ pc' = "poll"
    /\ UNCHANGED <<begun, other, camera, m_bitShift, m_gain, m_dataRate, source,
                   readADC, converted, cal, call, frame>>

\* getLastConversionResults, lines 75-85, and the assignment of lines 8 and 11
getLastConversionResults(ok) ==
    /\ pc = "conv"
    /\ readRegister(ADS1X15_REG_POINTER_CONVERT, ok)
    /\ readADC' = DecodeResult(BufferWord(buffer'), m_bitShift)
    /\ pc' = "calc"
    /\ UNCHANGED <<begun, other, camera, m_bitShift, m_gain, m_dataRate, source,
                   converted, cal, call, frame, polls>>

\* measure, lines 13-14
measure_return ==
    /\ pc = "calc"
    /\ converted' = LinearMap(readADC, cal)
    /\ pc' = "idle"
    /\ UNCHANGED <<begun, other, camera, m_bitShift, m_gain, m_dataRate, source,
                   readADC, cal, buffer, call, frame, polls, bus, dev_mux,
                   dev_conv, dev_busy, dev_lo, dev_hi, faults>>

\* begin, lines 32-35: m_i2c_dev is set, and the result says whether a
\* converter answered at the address
begin(found) ==
    /\ pc = "idle"
    /\ begun' = IF found THEN "ok" ELSE "failed"
    /\ call' = [op |-> "begin", result |-> found]
    /\ bus' = <<>>
    /\ polls' = 0
    /\ UNCHANGED <<other, camera, m_bitShift, m_gain, m_dataRate, source,
                   readADC, converted, cal, buffer, pc, frame, dev_mux,
                   dev_conv, dev_busy, dev_lo, dev_hi, faults>>

\* writeRegister, line 95, and readRegister, lines 100-101, before begin: the
\* call through the pointer that was never set may also end the program
WildPointer ==
    /\ begun = "no"
    /\ pc \in {"wcfg", "whi", "wlo", "poll", "conv"}
    /\ pc' = "crashed"
    /\ UNCHANGED <<begun, other, camera, m_bitShift, m_gain, m_dataRate, source,
                   readADC, converted, cal, buffer, call, frame, polls, bus,
                   dev_mux, dev_conv, dev_busy, dev_lo, dev_hi, faults>>

(***************************************************************************)
(* A second driver instance on the same bus and converter, measuring the   *)
(* pair (2, 3) with the settings of the constructor, and a converter whose *)
(* inputs hold fixed voltages.                                             *)
(***************************************************************************)
first == <<m_bitShift, m_gain, m_dataRate, source, readADC, converted, cal,
           buffer, pc, call, frame, polls, bus, faults, begun>>

\* the Conversion register value the converter produces for a multiplexer code
AnalogInput(mux) ==
    IF mux = ADS1X15_REG_CONFIG_MUX_DIFF_0_1 THEN 100
    ELSE IF mux = ADS1X15_REG_CONFIG_MUX_DIFF_2_3 THEN 65436
    ELSE 3968

\* the converter finishes the conversion of the pair its multiplexer selects
DeviceConvert ==
    /\ dev_busy
    /\ dev_busy' = FALSE
    /\ dev_conv' = AnalogInput(dev_mux)
    /\ UNCHANGED <<first, other, camera, dev_mux, dev_lo, dev_hi>>

\* measure, lines 10-11, and readADC_Differential_2_3, line 70
other_measure ==
    /\ b_pc \in {"idle", "done"}
    /\ b_pc' = "wcfg"
    /\ UNCHANGED <<first, camera, device, serialized, b_readADC>>

\* startADCReading, line 58
other_config ==
    /\ b_pc = "wcfg"
    /\ LET written == ConfigWord(GAIN_TWOTHIRDS, RATE_ADS1115_860SPS,
                                 ADS1X15_REG_CONFIG_MUX_DIFF_2_3, FALSE)
       IN  /\ dev_mux' = BitAnd(written, 28672)
           /\ dev_busy' = (written >= 32768 \/ dev_busy)
    /\ b_pc' = "whi"
    /\ UNCHANGED <<first, camera, dev_conv, dev_lo, dev_hi, serialized,
                   b_readADC>>

\* startADCReading, line 59
other_hithresh ==
    /\ b_pc = "whi"
    /\ dev_hi' = 32768
    /\ b_pc' = "wlo"
    /\ UNCHANGED <<first, camera, dev_mux, dev_conv, dev_busy, dev_lo,
                   serialized, b_readADC>>

\* startADCReading, line 60
other_lowthresh ==
    /\ b_pc = "wlo"
    /\ dev_lo' = 0
    /\ b_pc' = "poll"
    /\ UNCHANGED <<first, camera, dev_mux, dev_conv, dev_busy, dev_hi,
                   serialized, b_readADC>>

\* conversionComplete, lines 87-89, ending the loop of line 71
other_conversionComplete ==
    /\ b_pc = "poll"
    /\ BitAnd(DevRead(ADS1X15_REG_POINTER_CONFIG), 32768) # 0
    /\ b_pc' = "conv"
    /\ UNCHANGED <<first, camera, device, serialized, b_readADC>>

\* getLastConversionResults, lines 75-85, and the assignment of line 11
other_getLastConversionResults ==
    /\ b_pc = "conv"
    /\ b_readADC' = DecodeResult(DevRead(ADS1X15_REG_POINTER_CONVERT), 0)
    /\ b_pc' = "done"
    /\ UNCHANGED <<first, camera, device, serialized>>

\* linearCal, lines 17-23
linearCal(c) ==
    /\ pc = "idle"
    /\ cal' = c
    /\ call' = [op |-> "linearCal", cal |-> c]
    /\ bus' = <<>>
    /\ polls' = 0
    /\ UNCHANGED <<begun, other, camera, m_bitShift, m_gain, m_dataRate, source,
                   readADC, converted, buffer, pc, frame, dev_mux, dev_conv,
                   dev_busy, dev_lo, dev_hi, faults>>

\* setGain, line 37
setGain(gain) ==
    /\ pc = "idle"
    /\ m_gain' = gain
    /\ call' = [op |-> "setGain", gain |-> gain]
    /\ bus' = <<>>
    /\ polls' = 0
    /\ UNCHANGED <<begun, other, camera, m_bitShift, m_dataRate, source,
                   readADC, converted, cal, buffer, pc, frame, dev_mux,
                   dev_conv, dev_busy, dev_lo, dev_hi, faults>>

\* setDataRate, line 39
setDataRate(rate) ==
    /\ pc = "idle"
    /\ m_dataRate' = rate
    /\ call' = [op |-> "setDataRate", rate |-> rate]
    /\ bus' = <<>>
    /\ polls' = 0
    /\ UNCHANGED <<begun, other, camera, m_bitShift, m_gain, source, readADC,
                   converted, cal, buffer, pc, frame, dev_mux, dev_conv,
                   dev_busy, dev_lo, dev_hi, faults>>

\* the converter's threshold registers at power-on
PowerOnThresholds == dev_lo = 32768 /\ dev_hi = 32767

\* no second driver instance at work
OneCaller ==
    /\ serialized = TRUE
    /\ b_pc = "idle"
    /\ b_readADC = 0

NoFormat == [width |-> 0, height |-> 0, channels |-> 0]

\* CameraManager::CameraManager, line 80, with Impl's member initialisers,
\* lines 9-13
CameraConstructed ==
    /\ impl_device = 0
    /\ sink = FALSE
    /\ stream = "none"
    /\ orphans = 0
    /\ stops = 0
    /\ current_format = NoFormat
    /\ initialized = FALSE
    /\ cam_call = [op |-> "CameraManager"]
    /\ dims = NoFormat
    /\ live = FALSE

\* no camera attached, the manager constructed and left alone
NoCamera ==
    /\ attached = <<>>
    /\ CameraConstructed

driver == <<first, other, device>>

\* std::string::find, line 20: the hint occurs in the model name
Find(name, hint) ==
    \E i \in 0..(Len(name) - Len(hint)) : SubSeq(name, i + 1, i + Len(hint)) = hint

\* the condition of line 20
Matches(d, model_hint) == model_hint = <<>> \/ Find(d.modelName, model_hint)

\* initialize, lines 15-43
initialize(model_hint) ==
    LET matching == {i \in 1..Len(attached) : Matches(attached[i], model_hint)}
    IN  IF matching = {}
        THEN /\ cam_call' = [op |-> "initialize", hint |-> model_hint,
                             result |-> FALSE]
             /\ UNCHANGED <<driver, attached, impl_device, sink, stream,
                            orphans, stops, current_format, initialized, dims,
                            live>>
        ELSE LET i == CHOOSE j \in matching : \A k \in matching : j <= k
                 formats == attached[i].formats
             IN  /\ impl_device' = i
                 /\ IF formats = <<>>
                    THEN /\ cam_call' = [op |-> "initialize", hint |-> model_hint,
                                         result |-> FALSE]
                         /\ UNCHANGED <<driver, attached, sink, stream, orphans,
                                        stops, current_format, initialized,
                                        dims, live>>
                    ELSE /\ stream = "running" => orphans < MaxOrphans
                         /\ current_format' = Head(formats)
                         /\ sink' = TRUE
                         /\ orphans' = IF stream = "running" THEN orphans + 1
                                                             ELSE orphans
                         /\ stream' = "running"
                         /\ stops' = 0
                         /\ initialized' = TRUE
                         /\ live' = TRUE
                         /\ cam_call' = [op |-> "initialize", hint |-> model_hint,
                                         result |-> TRUE]
                         /\ UNCHANGED <<driver, attached, dims>>

\* shutdown, lines 45-54
shutdown ==
    /\ cam_call' = [op |-> "shutdown"]
    /\ live' = FALSE
    /\ IF initialized
       THEN /\ stream' = "stopped"
            /\ stops' = stops + 1
            /\ impl_device' = 0
            /\ sink' = FALSE
            /\ initialized' = FALSE
       ELSE UNCHANGED <<stream, stops, impl_device, sink, initialized>>
    /\ UNCHANGED <<driver, attached, orphans, current_format, dims>>

\* get_frame without the test of line 68: the sink is asked for a frame
\* whatever the state of the manager
get_frame_unguarded(d) ==
    /\ dims' = current_format
    /\ cam_call' = [op |-> "get_frame", in |-> d, snapped |-> TRUE,
                    size |-> current_format.width * current_format.height
                                 * current_format.channels,
                    live |-> live]
    /\ UNCHANGED <<driver, attached, impl_device, sink, stream, orphans, stops,
                   current_format, initialized, live>>

\* get_frame, lines 66-77, called with width, height and channels holding d
get_frame(d) ==
    /\ IF ~initialized \/ ~sink
       THEN /\ dims' = d
            /\ cam_call' = [op |-> "get_frame", in |-> d, snapped |-> FALSE,
                            size |-> 0, live |-> live]
       ELSE /\ dims' = current_format
            /\ cam_call' = [op |-> "get_frame", in |-> d, snapped |-> TRUE,
                            size |-> current_format.width * current_format.height
                                         * current_format.channels,
                            live |-> live]
    /\ UNCHANGED <<driver, attached, impl_device, sink, stream, orphans, stops,
                   current_format, initialized, live>>

(***************************************************************************)
(* The driver after construction and begin, a converter at power-on.       *)
(***************************************************************************)
\* ADS1115::ADS1115, lines 25-30; _source is written by measure before
\* anything reads it
Constructed ==
    /\ m_bitShift = 0
    /\ m_gain = GAIN_TWOTHIRDS
    /\ m_dataRate = RATE_ADS1115_860SPS
    /\ source = -1
    /\ readADC \in UninitRaw
    /\ converted = Uninit
    /\ cal \in UninitCalibrations
    /\ buffer = <<0, 0, 0>>
    /\ pc = "idle"
    /\ call = [op |-> "ADS1115"]
    /\ frame = NoFrame
    /\ polls = 0
    /\ bus = <<>>
    /\ dev_mux = 0
    /\ dev_conv = 0
    /\ dev_busy = FALSE
    /\ faults = 0
    /\ PowerOnThresholds

\* begin, lines 32-35, has been called and has found the converter
Init ==
    /\ Constructed
    /\ begun = "ok"
    /\ OneCaller
    /\ NoCamera

Next ==
    \/ \E s \in Sources : measure(s)
    \/ \E ok \in Outcomes : startADCReading_config(ok)
    \/ \E ok \in Outcomes : startADCReading_hithresh(ok)
    \/ \E ok \in Outcomes : startADCReading_lowthresh(ok)
    \/ \E ok \in Outcomes : conversionComplete(ok)
    \/ \E ok \in Outcomes : getLastConversionResults(ok)
    \/ measure_return
    \/ \E c \in Calibrations : linearCal(c)
    \/ \E g \in GainInputs : setGain(g)
    \/ \E r \in RateInputs : setDataRate(r)
    \/ DeviceFinish

Spec == Init /\ [][Next]_vars

(***************************************************************************)
(* The driver from its construction on: begin may be left out, may find    *)
(* the converter or may fail to.                                           *)
(***************************************************************************)
InitBegin ==
    /\ Constructed
    /\ begun = "no"
    /\ OneCaller
    /\ NoCamera

NextBegin ==
    \/ \E found \in BOOLEAN : begin(found)
    \/ \E s \in Sources : measure(s)
    \/ \E ok \in Outcomes : startADCReading_config(ok)
    \/ \E ok \in Outcomes : startADCReading_hithresh(ok)
    \/ \E ok \in Outcomes : startADCReading_lowthresh(ok)
    \/ \E ok \in Outcomes : conversionComplete(ok)
    \/ \E ok \in Outcomes : getLastConversionResults(ok)
    \/ measure_return
    \/ WildPointer
    \/ DeviceFinish

SpecBegin == InitBegin /\ [][NextBegin]_vars

(***************************************************************************)
(* Two driver instances on one bus: the first measures source 0, the       *)
(* second source 1; the callers either hold a lock around each whole       *)
(* measurement or do not.                                                  *)
(***************************************************************************)
InitShared ==
    /\ Constructed
    /\ begun = "ok"
    /\ serialized \in BOOLEAN
    /\ b_pc = "idle"
    /\ b_readADC = 0
    /\ NoCamera

NextShared ==
    \/ (serialized => b_pc \in {"idle", "done"}) /\ measure(0)
    \/ startADCReading_config(TRUE)
    \/ startADCReading_hithresh(TRUE)
    \/ startADCReading_lowthresh(TRUE)
    \/ conversionComplete(TRUE)
    \/ getLastConversionResults(TRUE)
    \/ measure_return
    \/ (serialized => pc = "idle") /\ other_measure
    \/ other_config
    \/ other_hithresh
    \/ other_lowthresh
    \/ other_conversionComplete
    \/ other_getLastConversionResults
    \/ DeviceConvert

SpecShared == InitShared /\ [][NextShared]_vars

(***************************************************************************)
(* The camera manager on its own, for every list of attached cameras of    *)
(* the bounds.                                                             *)
(***************************************************************************)
InitCam ==
    /\ Constructed
    /\ begun = "ok"
    /\ OneCaller
    /\ attached \in AttachedLists
    /\ CameraConstructed

NextCam ==
    \/ \E h \in ModelHints : initialize(h)
    \/ shutdown
    \/ \E d \in DimInputs : get_frame(d)

SpecCam == InitCam /\ [][NextCam]_vars

(***************************************************************************)
(* The decoder on its own: a call about to read the Conversion register,   *)
(* for every resolution shift and Conversion register value of the bounds. *)
(***************************************************************************)
InitDecode ==
    /\ m_bitShift \in 0..MaxShift
    /\ m_gain = GAIN_TWOTHIRDS
    /\ m_dataRate = RATE_ADS1115_860SPS
    /\ source = 0
    /\ readADC = 0
    /\ converted = Uninit
    /\ cal = [inputMin |-> 0, inputMax |-> 1000, outputMin |-> 0, outputMax |-> 10]
    /\ buffer = <<0, 0, 0>>
    /\ pc = "conv"
    /\ call = [op |-> "measure", source |-> 0]
    /\ frame = NoFrame
    /\ polls = 0
    /\ bus = <<>>
    /\ dev_mux = 0
    /\ dev_conv \in DecodeValues
    /\ dev_busy = FALSE
    /\ faults = 0
    /\ PowerOnThresholds
    /\ begun = "ok"
    /\ OneCaller
    /\ NoCamera

NextDecode ==
    \/ getLastConversionResults(TRUE)
    \/ measure_return

SpecDecode == InitDecode /\ [][NextDecode]_vars

(***************************************************************************)
(* The Config word on its own: startADCReading called with every           *)
(* multiplexer code and mode, after setGain and setDataRate with every     *)
(* gain and data rate.                                                     *)
(***************************************************************************)
NextCodec ==
    \/ \E g \in adsGain_t : setGain(g)
    \/ \E r \in DataRates : setDataRate(r)
    \/ \E m \in MuxCodes, c \in BOOLEAN : startADCReading(m, c)
    \/ startADCReading_config(TRUE)
    \/ startADCReading_hithresh(TRUE)
    \/ startADCReading_lowthresh(TRUE)
    \/ DeviceFinish

SpecCodec == Init /\ [][NextCodec]_vars

(***************************************************************************)
(* The calibration map on its own: a call about to compute its result,    *)
(* for every calibration and raw count of the bounds.                      *)
(***************************************************************************)
InitCal ==
    /\ m_bitShift = 0
    /\ m_gain = GAIN_TWOTHIRDS
    /\ m_dataRate = RATE_ADS1115_860SPS
    /\ source = 0
    /\ readADC \in RawCounts
    /\ converted = Uninit
    /\ cal \in CalSpace
    /\ buffer = <<0, 0, 0>>
    /\ pc = "calc"
    /\ call = [op |-> "measure", source |-> 0]
    /\ frame = NoFrame
    /\ polls = 0
    /\ bus = <<>>
    /\ dev_mux = 0
    /\ dev_conv = 0
    /\ dev_busy = FALSE
    /\ faults = 0
    /\ PowerOnThresholds
    /\ begun = "ok"
    /\ OneCaller
    /\ NoCamera

NextCal == measure_return

SpecCal == InitCal /\ [][NextCal]_vars

(***************************************************************************)
(* The byte framing on its own: one register write followed by a read of   *)
(* the same register, for every register address and 16-bit value.         *)
(***************************************************************************)
InitFrame ==
    /\ m_bitShift = 0
    /\ m_gain = GAIN_TWOTHIRDS
    /\ m_dataRate = RATE_ADS1115_860SPS
    /\ source = -1
    /\ readADC = 0
    /\ converted = Uninit
    /\ cal = [inputMin |-> 0, inputMax |-> 1000, outputMin |-> 0, outputMax |-> 10]
    /\ buffer = <<0, 0, 0>>
    /\ pc = "wreg"
    /\ \E r \in FrameRegisters, v \in FrameValues :
           call = [op |-> "writeRegister", reg |-> r, value |-> v]
    /\ frame = NoFrame
    /\ polls = 0
    /\ bus = <<>>
    /\ dev_mux = 0
    /\ dev_conv = 0
    /\ dev_busy = FALSE
    /\ faults = 0
    /\ PowerOnThresholds
    /\ begun = "ok"
    /\ OneCaller
    /\ NoCamera

\* writeRegister, lines 91-96, called with the register and the value
RegisterWrite ==
    /\ pc = "wreg"
    /\ writeRegister(call.reg, call.value, TRUE)
    /\ pc' = "rreg"
    /\ UNCHANGED <<begun, other, camera, m_bitShift, m_gain, m_dataRate, source,
                   readADC, converted, cal, call, frame, polls>>

\* readRegister, lines 98-103, called with the same register
RegisterRead ==
    /\ pc = "rreg"
    /\ readRegister(call.reg, TRUE)
    /\ pc' = "idle"
    /\ UNCHANGED <<begun, other, camera, m_bitShift, m_gain, m_dataRate, source,
                   readADC, converted, cal, call, frame, polls>>

NextFrame ==
    \/ RegisterWrite
    \/ RegisterRead

SpecFrame == InitFrame /\ [][NextFrame]_vars

(***************************************************************************)
(* Properties of the measurement protocol, under Spec.                     *)
(***************************************************************************)
MeasureReturned == pc = "idle" /\ call.op = "measure"
ValidSource == call.op = "measure" /\ call.source \in {0, 1}

IsWrite(e, reg, value) == e.op = "W" /\ e.reg = reg /\ e.val = value
IsRead(e, reg) == e.op = "R" /\ e.reg = reg
StatusSet(e) == BitAnd(e.val, 32768) # 0

\* the poll bound a bounded driver would be configured with
PollBound == 1

\* C1: measure(source) with a source outside {0, 1} returns an InvalidChannel
\* error, whatever was measured before; it never returns a value computed from
\* an earlier raw count.
C1_InvalidChannelRejected ==
    (MeasureReturned /\ call.source \notin {0, 1})
        => converted.kind = "InvalidChannel"

\* C2: when every read of the Config register shows the status bit clear, a
\* measurement of a valid source stops polling within the poll bound and
\* returns Timeout.
C2_TimeoutWithinBound ==
    (ValidSource /\ polls >= PollBound)
        => (pc = "idle" /\ converted.kind = "Timeout")

\* C3: a failed bus write or read ends the measurement at that step with a
\* TransportError: no further register write or read is issued in the call and
\* no measurement value is returned.
C3_AbortOnTransportError ==
    \A i \in 1..Len(bus) :
        ~bus[i].ok =>
            /\ i = Len(bus)
            /\ (MeasureReturned => converted.kind = "TransportError")

\* C4: the calibration-set operation rejects a calibration with
\* inputMax = inputMin and leaves the stored calibration unchanged.
C4_DegenerateCalibrationRejected ==
    [][(call'.op = "linearCal" /\ call'.cal.inputMax = call'.cal.inputMin)
           => cal' = cal]_vars

\* C5: every measurement of a valid source issues exactly three register
\* writes, Config, High-threshold 0x8000, Low-threshold 0x0000, in that order
\* and before its first register read, and at least one register read, whatever
\* earlier calls did.
C5_ThreeWritesThenReads ==
    ValidSource =>
        /\ Len(bus) >= 1 =>
               bus[1].op = "W" /\ bus[1].reg = ADS1X15_REG_POINTER_CONFIG
        /\ Len(bus) >= 2 => IsWrite(bus[2], ADS1X15_REG_POINTER_HITHRESH, 32768)
        /\ Len(bus) >= 3 => IsWrite(bus[3], ADS1X15_REG_POINTER_LOWTHRESH, 0)
        /\ \A i \in 4..Len(bus) : bus[i].op = "R"
        /\ pc = "wcfg" => Len(bus) = 0
        /\ pc = "whi" => Len(bus) = 1
        /\ pc = "wlo" => Len(bus) = 2
        /\ pc = "poll" => Len(bus) >= 3
        /\ pc \in {"conv", "calc", "idle"} => Len(bus) >= 4

\* a second measurement of the channel the converter is already set to has
\* returned after a poll that showed "not ready"
C5_Witness ==
    /\ MeasureReturned
    /\ call.source = 1
    /\ polls >= 1
    /\ Len(bus) >= 6
    /\ readADC = 100

\* C6: within one measurement the Conversion register is read exactly once,
\* and only right after a read of the Config register of the same call returned
\* a word with bit 15 set; a Config read that shows bit 15 clear is followed by
\* nothing but a further Config read.
C6_ConversionReadOnceAfterReady ==
    LET convReads == {i \in 1..Len(bus) :
                         IsRead(bus[i], ADS1X15_REG_POINTER_CONVERT)}
    IN  /\ Cardinality(convReads) <= 1
        /\ \A i \in convReads :
               /\ i > 1
               /\ IsRead(bus[i - 1], ADS1X15_REG_POINTER_CONFIG)
               /\ StatusSet(bus[i - 1])
        /\ \A i \in 1..(Len(bus) - 1) :
               (IsRead(bus[i], ADS1X15_REG_POINTER_CONFIG) /\ ~StatusSet(bus[i]))
                   => IsRead(bus[i + 1], ADS1X15_REG_POINTER_CONFIG)
        /\ (ValidSource /\ pc \in {"calc", "idle"}) => Cardinality(convReads) = 1
        /\ (ValidSource /\ pc \in {"wcfg", "whi", "wlo", "poll", "conv"})
               => convReads = {}

\* the Conversion register has just been read, after polls that showed the
\* status bit clear and one that showed it set
C6_Witness ==
    /\ ValidSource
    /\ pc = "calc"
    /\ polls >= 1
    /\ IsRead(bus[Len(bus)], ADS1X15_REG_POINTER_CONVERT)
    /\ bus[Len(bus)].ok

\* C10: gain changes only in setGain, the data rate only in setDataRate, the
\* calibration only in linearCal, and the resolution shift never; a step of
\* measure, whatever its source and however far it got, changes none of them.
C10_SettingsChangeOnlyInSetters ==
    [][/\ m_gain' # m_gain => (pc = "idle" /\ call'.op = "setGain")
       /\ m_dataRate' # m_dataRate => (pc = "idle" /\ call'.op = "setDataRate")
       /\ cal' # cal => (pc = "idle" /\ call'.op = "linearCal")
       /\ m_bitShift' = m_bitShift
       /\ (pc # "idle" \/ call'.op = "measure")
              => UNCHANGED <<m_gain, m_dataRate, cal, m_bitShift>>]_vars

\* a measurement has returned with gain, data rate and calibration as the
\* setters left them
C10_Witness ==
    /\ MeasureReturned
    /\ call.source = 0
    /\ m_gain = GAIN_SIXTEEN
    /\ m_dataRate = RATE_ADS1115_128SPS
    /\ cal.inputMin = 100
    /\ Len(bus) >= 5

(***************************************************************************)
(* Properties of the decoder, under SpecDecode.                            *)
(***************************************************************************)
\* the top s bits dropped and the rest read as a (16 - s)-bit two's-complement
\* number
SignedField(v, s) ==
    LET r == ShiftRight(v, s)
    IN  IF r >= 2 ^ (15 - s) THEN r - 2 ^ (16 - s) ELSE r

Decoded == pc = "calc" /\ Len(bus) = 1 /\ bus[1].ok

\* C7 as stated: for every shift s and register value v the decoded count is v
\* as a signed 16-bit integer when s = 0, and (v >> s) as a (16 - s)-bit
\* two's-complement number when s > 0.
C7_DecodeEveryShift ==
    Decoded => readADC = SignedField(dev_conv, m_bitShift)

\* C7, amended: the decoded count is (v >> s) as a (16 - s)-bit
\* two's-complement number for the shifts 0 and 4.
C7_DecodeShift0And4 ==
    (Decoded /\ m_bitShift \in {0, 4})
        => readADC = SignedField(dev_conv, m_bitShift)

\* a 12-bit result with its top bit set has been decoded to a negative count
C7_Witness ==
    /\ Decoded
    /\ m_bitShift = 4
    /\ dev_conv = 63488
    /\ readADC = -128

\* C8 as stated: register value 0x0F80 under shift 4 decodes to a negative,
\* sign-extended count.
C8_NegativeDecode ==
    (Decoded /\ m_bitShift = 4 /\ dev_conv = 3968) => readADC < 0

\* C8, amended: register value 0x0F80 under shift 4 decodes to 248 (0x00F8),
\* bit 11 of the shifted value being clear.
C8_Decode0F80 ==
    (Decoded /\ m_bitShift = 4 /\ dev_conv = 3968) => readADC = 248

\* 0x0F80 has been decoded under shift 4
C8_Witness ==
    /\ Decoded
    /\ m_bitShift = 4
    /\ dev_conv = 3968
    /\ bus[1].val = 3968

(***************************************************************************)
(* Properties of the Config word, under SpecCodec.                         *)
(***************************************************************************)
\* bits lo .. lo + width - 1 of a word
Field(w, lo, width) == ShiftRight(w, lo) % (2 ^ width)

\* C9: the Config word written decodes field by field to the inputs: bits
\* 14-12 the multiplexer code, bits 11-9 the gain, bit 8 the mode, bits 7-5
\* the data rate, with gain and data rate as setGain and setDataRate left them.
C9_ConfigFieldsRoundTrip ==
    \A i \in 1..Len(bus) :
        (call.op = "startADCReading" /\ bus[i].op = "W"
             /\ bus[i].reg = ADS1X15_REG_POINTER_CONFIG)
        => /\ Field(bus[i].val, 12, 3) * 4096 = call.mux
           /\ Field(bus[i].val, 9, 3) * 512 = m_gain
           /\ Field(bus[i].val, 8, 1) = (IF call.continuous THEN 0 ELSE 1)
           /\ Field(bus[i].val, 5, 3) * 32 = m_dataRate

\* a Config word has been written with all four fields away from their
\* defaults, gain and data rate installed by the setters
C9_Witness ==
    /\ call.op = "startADCReading"
    /\ pc = "idle"
    /\ Len(bus) = 3
    /\ call.mux = 28672
    /\ call.continuous
    /\ m_gain = 2560
    /\ m_dataRate = 32
    /\ bus[1].val = 32768 + 28672 + 2560 + 32

\* C16 as stated: every Config word written has the comparator queue disabled,
\* a non-latching comparator, an active-low alert pin and the traditional
\* comparator mode.
C16_ComparatorQueueDisabled ==
    \A i \in 1..Len(bus) :
        (bus[i].op = "W" /\ bus[i].reg = ADS1X15_REG_POINTER_CONFIG)
        => /\ Field(bus[i].val, 0, 2) = ADS1X15_REG_CONFIG_CQUE_NONE
           /\ Field(bus[i].val, 2, 1) = 0
           /\ Field(bus[i].val, 3, 1) = 0
           /\ Field(bus[i].val, 4, 1) = 0

\* C16, amended: every Config word written has the comparator queue field at
\* "assert after one conversion" (00), not at "disabled" (11), a non-latching
\* comparator, an active-low alert pin and the traditional comparator mode,
\* whatever the gain, data rate, multiplexer code and mode.
C16_ComparatorFields ==
    \A i \in 1..Len(bus) :
        (bus[i].op = "W" /\ bus[i].reg = ADS1X15_REG_POINTER_CONFIG)
        => /\ Field(bus[i].val, 0, 2) = ADS1X15_REG_CONFIG_CQUE_1CONV
           /\ ADS1X15_REG_CONFIG_CQUE_1CONV # ADS1X15_REG_CONFIG_CQUE_NONE
           /\ Field(bus[i].val, 2, 1) = 0
           /\ Field(bus[i].val, 3, 1) = 0
           /\ Field(bus[i].val, 4, 1) = 0

\* a Config word has been written in continuous mode with the highest
\* multiplexer code, gain and data rate installed by the setters
C16_Witness ==
    /\ call.op = "startADCReading"
    /\ pc = "whi"
    /\ call.mux = 28672
    /\ call.continuous
    /\ m_gain = 2560
    /\ m_dataRate = 224
    /\ bus[1].val = 32768 + 28672 + 2560 + 224

(***************************************************************************)
(* Further properties of the measurement protocol, under Spec.             *)
(***************************************************************************)
\* C11: a measurement with a source outside {0, 1} issues no register write
\* and no register read: the call goes straight to the calibration map with no
\* bus traffic at all.
C11_InvalidSourceNoBusTraffic ==
    (call.op = "measure" /\ call.source \notin {0, 1})
        => (bus = <<>> /\ pc \in {"calc", "idle"})

\* a measurement with source 2 has returned without bus traffic, after an
\* earlier measurement that did read the converter
C11_Witness ==
    /\ MeasureReturned
    /\ call.source = 2
    /\ bus = <<>>
    /\ readADC = 100
    /\ converted.kind = "value"

\* C12: the value a measurement of a valid source returns is the calibration
\* map, with the calibration stored at that moment, of the sign-decoded value
\* the Conversion register held when the call read it; it depends on nothing
\* else.
C12_FreshCalibratedValue ==
    (MeasureReturned /\ ValidSource /\ cal.inputMax # cal.inputMin)
        => LET raw == SignedField(dev_conv, m_bitShift)
               din == cal.inputMax - cal.inputMin
           IN  /\ converted.kind = "value"
               /\ converted.num * din =
                      converted.den * ((cal.outputMax - cal.outputMin)
                                           * (raw - cal.inputMin)
                                       + cal.outputMin * din)

(***************************************************************************)
(* Properties of the calibration map, under SpecCal.                       *)
(***************************************************************************)
\* C13: with inputMax # inputMin the map sends the raw count inputMin to
\* outputMin and inputMax to outputMax, and every raw count, inside the input
\* range or not, to the point of the line through those two; a raw count
\* outside the input range is not limited to the output range.
C13_LinearNoClamp ==
    (MeasureReturned /\ cal.inputMax # cal.inputMin)
        => LET din == cal.inputMax - cal.inputMin
               lo == IF cal.outputMin < cal.outputMax
                     THEN cal.outputMin ELSE cal.outputMax
               hi == IF cal.outputMin < cal.outputMax
                     THEN cal.outputMax ELSE cal.outputMin
               outside == \/ (readADC - cal.inputMin) * din < 0
                          \/ (readADC - cal.inputMax) * din > 0
           IN  /\ converted.kind = "value"
               /\ converted.den > 0
               /\ readADC = cal.inputMin
                      => converted.num = cal.outputMin * converted.den
               /\ readADC = cal.inputMax
                      => converted.num = cal.outputMax * converted.den
               /\ converted.num * din =
                      converted.den * ((cal.outputMax - cal.outputMin)
                                           * (readADC - cal.inputMin)
                                       + cal.outputMin * din)
               /\ (outside /\ lo # hi)
                      => \/ converted.num < lo * converted.den
                         \/ converted.num > hi * converted.den

\* the largest raw count has been mapped beyond outputMax, on the line through
\* (0, 0) and (1000, 10)
C13_Witness ==
    /\ MeasureReturned
    /\ cal = [inputMin |-> 0, inputMax |-> 1000, outputMin |-> 0, outputMax |-> 10]
    /\ readADC = 32767
    /\ converted = [kind |-> "value", num |-> 32767, den |-> 100]

\* C15: every Config word written for a measurement has bit 15 (start a single
\* conversion) set, the single-shot mode selected, and the multiplexer code of
\* the requested source: the pair (0, 1) for source 0, the pair (2, 3) for
\* source 1, never another code.
C15_MeasureConfigWord ==
    \A i \in 1..Len(bus) :
        (call.op = "measure" /\ bus[i].op = "W"
             /\ bus[i].reg = ADS1X15_REG_POINTER_CONFIG)
        => /\ call.source \in {0, 1}
           /\ Field(bus[i].val, 15, 1) = 1
           /\ Field(bus[i].val, 8, 1) * 256 = ADS1X15_REG_CONFIG_MODE_SINGLE
           /\ Field(bus[i].val, 12, 3) * 4096 =
                  (IF call.source = 0 THEN ADS1X15_REG_CONFIG_MUX_DIFF_0_1
                                      ELSE ADS1X15_REG_CONFIG_MUX_DIFF_2_3)
           /\ ADS1X15_REG_CONFIG_MUX_DIFF_0_1 # ADS1X15_REG_CONFIG_MUX_DIFF_2_3

\* a measurement of source 1 has written its Config word, with the gain and
\* the data rate changed by the setters and source 0 measured before
C15_Witness ==
    /\ MeasureReturned
    /\ call.source = 1
    /\ readADC = 100
    /\ m_gain = GAIN_SIXTEEN
    /\ m_dataRate = RATE_ADS1115_128SPS
    /\ bus[1].ok
    /\ bus[1].val = 32768 + 12288 + 2560 + 256 + 128
    /\ dev_mux = ADS1X15_REG_CONFIG_MUX_DIFF_2_3

(***************************************************************************)
(* Properties of the byte framing, under SpecFrame.                        *)
(***************************************************************************)
\* C17: a write of the value v to the register r puts exactly the three bytes
\* r, v div 256, v mod 256 on the bus, in one write; a read of the register r
\* puts the one byte r on the bus and returns 256 * b0 + b1 for the bytes b0,
\* b1 read back; so the bytes of a write of v read back give v, and a
\* threshold register written with v reads as v.
C17_ByteFraming ==
    /\ Len(bus) >= 1 =>
           /\ bus[1].op = "W"
           /\ bus[1].bytes = <<call.reg, call.value \div 256, call.value % 256>>
           /\ 256 * bus[1].bytes[2] + bus[1].bytes[3] = call.value
           /\ BufferWord(<<bus[1].bytes[2], bus[1].bytes[3]>>) = call.value
    /\ Len(bus) >= 2 =>
           /\ bus[2].op = "R"
           /\ bus[2].bytes = <<call.reg>>
           /\ bus[2].val = 256 * buffer[1] + buffer[2]
           /\ buffer[1] = DevRead(call.reg) \div 256
           /\ buffer[2] = DevRead(call.reg) % 256
           /\ call.reg \in {ADS1X15_REG_POINTER_LOWTHRESH,
                            ADS1X15_REG_POINTER_HITHRESH}
                  => bus[2].val = call.value
    /\ Len(bus) <= 2
    /\ pc = "rreg" => Len(bus) = 1
    /\ pc = "idle" => Len(bus) = 2

\* 0xABCD has been written to the High-threshold register and read back
C17_Witness ==
    /\ pc = "idle"
    /\ call.reg = ADS1X15_REG_POINTER_HITHRESH
    /\ call.value = 43981
    /\ bus[1].bytes = <<3, 171, 205>>
    /\ bus[2].val = 43981
    /\ dev_hi = 43981

(***************************************************************************)
(* Properties of the driver from its construction on, under SpecBegin.     *)
(***************************************************************************)
\* C18: no register write or read is issued unless begin has been called and
\* has reported success: a call made before begin, or after begin returned
\* false, performs no bus transaction.
C18_NoTrafficUnlessBegun ==
    bus # <<>> => begun = "ok"

(***************************************************************************)
(* Properties of two driver instances on one bus, under SpecShared.        *)
(***************************************************************************)
\* C14: the driver takes no lock on the bus.  When the callers serialize whole
\* measurements, every measurement returns the conversion of the pair whose
\* multiplexer code it wrote; when they do not, the other instance's Config
\* write can land between a measurement's Config write and its read of the
\* Conversion register, and the measurement returns a conversion of the other
\* instance's pair.
C14_SerializedOwnChannel ==
    serialized =>
        /\ (call.op = "measure" /\ pc \in {"calc", "idle"})
               => readADC = ToInt16(AnalogInput(ADS1X15_REG_CONFIG_MUX_DIFF_0_1))
        /\ b_pc = "done"
               => b_readADC = ToInt16(AnalogInput(ADS1X15_REG_CONFIG_MUX_DIFF_2_3))

\* without the lock, a measurement of source 0 that wrote the code of the pair
\* (0, 1) has returned the conversion of the pair (2, 3)
C14_Witness ==
    /\ ~serialized
    /\ MeasureReturned
    /\ call.source = 0
    /\ Field(bus[1].val, 12, 3) * 4096 = ADS1X15_REG_CONFIG_MUX_DIFF_0_1
    /\ IsRead(bus[Len(bus)], ADS1X15_REG_POINTER_CONVERT)
    /\ bus[Len(bus)].val = AnalogInput(ADS1X15_REG_CONFIG_MUX_DIFF_2_3)
    /\ readADC = -100

(***************************************************************************)
(* Properties of the camera manager, under SpecCam.                        *)
(***************************************************************************)
\* C19: after any sequence of initialize and shutdown calls at most one stream
\* is started and not yet stopped, and exactly one when the initialized flag is
\* true; a second successful initialize without a shutdown in between leaves
\* no earlier stream running, and the stream is stopped at most once.
C19_AtMostOneStream ==
    LET running == orphans + (IF stream = "running" THEN 1 ELSE 0)
    IN  /\ running <= 1
        /\ running = 1 <=> initialized
        /\ stops <= 1

\* C20: while the manager is not initialized (no initialize has succeeded, or
\* shutdown has been called since the last one that did) get_frame returns an
\* empty buffer, snaps no frame and leaves width, height and channels as the
\* caller had them; a frame is snapped only between a successful initialize
\* and the next shutdown.
C20_NoFrameUnlessInitialized ==
    /\ initialized = live
    /\ cam_call.op = "get_frame" =>
           /\ ~cam_call.live =>
                  /\ ~cam_call.snapped
                  /\ cam_call.size = 0
                  /\ dims = cam_call.in
           /\ cam_call.snapped => cam_call.live

\* get_frame has been called after a shutdown that stopped the stream, with
\* width, height and channels at 7, and has returned nothing
C20_Witness ==
    /\ cam_call.op = "get_frame"
    /\ ~cam_call.live
    /\ stops = 1
    /\ stream = "stopped"
    /\ cam_call.in = [width |-> 7, height |-> 7, channels |-> 7]
    /\ dims = cam_call.in
    /\ cam_call.size = 0
====
